---- MODULE Spec2Model ----
(***************************************************************************)
(* A model of app/main.py of convert-anything: the /convert, /compress,   *)
(* /unit-convert and /download handlers and the helpers they call.        *)
(*                                                                         *)
(* Python strings that the code parses or assembles (file names, content  *)
(* types, target formats, unit symbols) are sequences of one-character    *)
(* strings, so that lower(), strip(), Path.suffix, Path.stem and the      *)
(* f-strings are computed and not assumed.  Strings that are only passed  *)
(* along (MIME types of results, labels, messages) are TLA+ strings.      *)
(***************************************************************************)
EXTENDS Integers, Sequences, FiniteSets, TLC

VARIABLES
    cache,   \* DOWNLOAD_CACHE: token -> (output_name, out_bytes, media_type)
    slot,    \* the requests in flight, one per worker: position, inputs, locals, response
    ureq     \* the /unit-convert request in flight and its response

vars == <<cache, slot, ureq>>

(***************************************************************************)
(* Bounds of the model.                                                    *)
(***************************************************************************)
MaxPages == 3        \* pages of an uploaded PDF
MaxTokens == 3       \* tokens uuid4 can still hand out
MaxSize == 2         \* byte length of an encoded PNG candidate
QMargin == 3         \* submitted qualities range over 20-QMargin .. 95+QMargin
MaxValue == 2        \* submitted unit values range over -MaxValue .. MaxValue

(***************************************************************************)
(* str.lower(), str.strip()                                                *)
(***************************************************************************)
UpperChars == <<"A","B","C","D","E","F","G","H","I","J","K","L","M",
                "N","O","P","Q","R","S","T","U","V","W","X","Y","Z">>

LowerChars == <<"a","b","c","d","e","f","g","h","i","j","k","l","m",
                "n","o","p","q","r","s","t","u","v","w","x","y","z">>

LowerChar(c) ==
    IF \E i \in 1..Len(UpperChars) : UpperChars[i] = c
    THEN LowerChars[CHOOSE i \in 1..Len(UpperChars) : UpperChars[i] = c]
    ELSE c

Lower(s) == [i \in 1..Len(s) |-> LowerChar(s[i])]

Whitespace == {" ", "\t", "\n", "\r"}

Strip(s) ==
    LET keep == {i \in 1..Len(s) : s[i] \notin Whitespace}
    IN  IF keep = {} THEN <<>>
        ELSE LET lo == CHOOSE i \in keep : \A j \in keep : i <= j
                 hi == CHOOSE i \in keep : \A j \in keep : j <= i
             IN  SubSeq(s, lo, hi)

(***************************************************************************)
(* pathlib: Path(name).name, .suffix, .stem (of a name with no trailing    *)
(* slash)                                                                  *)
(***************************************************************************)
RFind(s, c) ==
    LET hits == {i \in 1..Len(s) : s[i] = c}
    IN  IF hits = {} THEN 0 ELSE CHOOSE i \in hits : \A j \in hits : j <= i

PathName(s) == SubSeq(s, RFind(s, "/") + 1, Len(s))

\* i = name.rfind('.'); 0 < i < len(name) - 1, with i counted from 0
HasSuffix(name) == 1 < RFind(name, ".") /\ RFind(name, ".") < Len(name)

PathSuffix(s) ==
    LET name == PathName(s)
    IN  IF HasSuffix(name) THEN SubSeq(name, RFind(name, "."), Len(name)) ELSE <<>>

PathStem(s) ==
    LET name == PathName(s)
    IN  IF HasSuffix(name) THEN SubSeq(name, 1, RFind(name, ".") - 1) ELSE name

(***************************************************************************)
(* format(index, "03d"), html.escape                                       *)
(***************************************************************************)
DigitChars == <<"0","1","2","3","4","5","6","7","8","9">>

RECURSIVE Decimal(_)
Decimal(n) ==
    IF n < 10 THEN <<DigitChars[n + 1]>>
    ELSE Decimal(n \div 10) \o <<DigitChars[(n % 10) + 1]>>

RECURSIVE ZeroPad(_, _)
ZeroPad(s, width) == IF Len(s) >= width THEN s ELSE ZeroPad(<<"0">> \o s, width)

Format03d(n) == ZeroPad(Decimal(n), 3)

EscapeChar(c) ==
    CASE c = "&" -> <<"&","a","m","p",";">>
      [] c = "<" -> <<"&","l","t",";">>
      [] c = ">" -> <<"&","g","t",";">>
      [] c = "\"" -> <<"&","q","u","o","t",";">>
      [] c = "'" -> <<"&","#","x","2","7",";">>
      [] OTHER -> <<c>>

RECURSIVE Escape(_)
Escape(s) == IF s = <<>> THEN <<>> ELSE EscapeChar(Head(s)) \o Escape(Tail(s))

(***************************************************************************)
(* String constants of the code.                                           *)
(***************************************************************************)
PNG == <<"p","n","g">>
JPG == <<"j","p","g">>
PDF == <<"p","d","f">>
DOT_PDF == <<".","p","d","f">>
DOT_PNG == <<".","p","n","g">>
APPLICATION_PDF == <<"a","p","p","l","i","c","a","t","i","o","n","/","p","d","f">>
IMAGE_PNG == <<"i","m","a","g","e","/","p","n","g">>
CONVERTED == <<"c","o","n","v","e","r","t","e","d">>
COMPRESSED == <<"c","o","m","p","r","e","s","s","e","d">>

SUPPORTED_COMPRESSION_SUFFIXES ==
    { <<".","h","e","i","c">>,
      <<".","h","e","i","f">>,
      <<".","p","n","g">>,
      <<".","j","p","g">>,
      <<".","j","p","e","g">>,
      <<".","p","d","f">> }

SUPPORTED_COMPRESSION_CONTENT_TYPES ==
    { <<"i","m","a","g","e","/","h","e","i","c">>,
      <<"i","m","a","g","e","/","h","e","i","f">>,
      <<"i","m","a","g","e","/","p","n","g">>,
      <<"i","m","a","g","e","/","j","p","e","g">>,
      <<"a","p","p","l","i","c","a","t","i","o","n","/","p","d","f">> }

(***************************************************************************)
(* Values.  An uploaded file's bytes are what a decoder makes of them: a   *)
(* PDF with its pages, a raster image, or neither.  A page of kind "big"   *)
(* renders to a raster beyond the JPEG encoder's dimension limit: PNG      *)
(* takes it, JPEG raises.  pngLen and quantLen are the byte lengths of the *)
(* image's lossless PNG encoding and of the PNG encodings of its first,    *)
(* second and third quantization.                                          *)
(***************************************************************************)
PageKinds == {"ok", "big"}

PdfSource(pages) ==
    [kind |-> "pdf", pages |-> pages, mode |-> "", pngLen |-> 0, quantLen |-> <<>>]

ImgSource(mode, pngLen, quantLen) ==
    [kind |-> "img", pages |-> <<>>, mode |-> mode, pngLen |-> pngLen, quantLen |-> quantLen]

JunkSource ==
    [kind |-> "junk", pages |-> <<>>, mode |-> "", pngLen |-> 0, quantLen |-> <<>>]

\* An exception, or a returned value.
Raise(e) == [ok |-> FALSE, err |-> e, val |-> <<>>]

Return(v) == [ok |-> TRUE, err |-> "", val |-> v]

\* A PIL image: the page it was rendered from (0: the upload itself), its mode,
\* the scale it was rendered at (in 1/750), its palette size once quantized.
Image(page, mode, big, scale, src) ==
    [page |-> page, mode |-> mode, big |-> big, scale |-> scale, flat |-> FALSE,
     colors |-> 0, quantizer |-> "", pngLen |-> src.pngLen, quantLen |-> src.quantLen]

\* Encoded bytes: the format, the images inside, a ZIP's entries, the quality
\* setting, and the byte length (modelled for PNG encodings only).
Bytes(fmt, imgs, entries, quality, len) ==
    [fmt |-> fmt, imgs |-> imgs, entries |-> entries, quality |-> quality, len |-> len]

(***************************************************************************)
(* _as_rgb_without_alpha                                                   *)
(***************************************************************************)
AsRgbWithoutAlpha(img) ==
    IF img.mode \in {"RGBA", "LA"}
    THEN [img EXCEPT !.mode = "RGB", !.flat = TRUE]
    ELSE IF img.mode # "RGB" THEN [img EXCEPT !.mode = "RGB"] ELSE img

(***************************************************************************)
(* _save_png_bytes: img.save(format="PNG", optimize=True, compress_level=9)*)
(***************************************************************************)
SavePngBytes(img, len) == Bytes("PNG", <<img>>, <<>>, 0, len)

(***************************************************************************)
(* _encode_image, _encode_pdf                                              *)
(***************************************************************************)
Encoded(bytes, ext, media, label) ==
    [bytes |-> bytes, ext |-> ext, media |-> media, label |-> label]

\* EncodeImage with PNG as the fall-through format instead of the raise.
EncodeImageFallThrough(img, output) ==
    IF output = JPG
    THEN IF img.big
         THEN Raise("encoder error")
         ELSE Return(Encoded(Bytes("JPEG", <<AsRgbWithoutAlpha(img)>>, <<>>, 85, 0),
                             JPG, "image/jpeg", "JPG"))
    ELSE Return(Encoded(Bytes("PNG", <<img>>, <<>>, 0, img.pngLen), PNG, "image/png", "PNG"))

EncodeImage(img, output) ==
    IF output = PNG
    THEN Return(Encoded(Bytes("PNG", <<img>>, <<>>, 0, img.pngLen), PNG, "image/png", "PNG"))
    ELSE IF output = JPG
    THEN IF img.big
         THEN Raise("encoder error")
         ELSE Return(Encoded(Bytes("JPEG", <<AsRgbWithoutAlpha(img)>>, <<>>, 85, 0),
                             JPG, "image/jpeg", "JPG"))
    ELSE Raise("Unsupported output format.")

EncodePdf(img) ==
    IF img.big
    THEN Raise("encoder error")
    ELSE Return(Encoded(Bytes("PDF", <<AsRgbWithoutAlpha(img)>>, <<>>, 0, 0),
                        PDF, "application/pdf", "PDF"))

(***************************************************************************)
(* _render_pdf_pages, Image.open + ImageOps.exif_transpose,                *)
(* _encode_pdf_pages                                                       *)
(***************************************************************************)
RenderPdfPages(src, scale) ==
    IF src.kind # "pdf"
    THEN Raise("pdfium: not a PDF")
    ELSE IF Len(src.pages) < 1
    THEN Raise("PDF has no pages.")
    ELSE Return([i \in 1..Len(src.pages) |->
                    Image(i, "RGBA", src.pages[i] = "big", scale, src)])

ImageOpen(src) ==
    IF src.kind # "img"
    THEN Raise("cannot identify image file")
    ELSE Return(Image(0, src.mode, FALSE, 0, src))

EncodePdfPages(pages, quality) ==
    IF pages = <<>>
    THEN Raise("No pages to encode.")
    ELSE IF \E i \in 1..Len(pages) : pages[i].big
    THEN Raise("encoder error")
    ELSE Return(Bytes("PDF", [i \in 1..Len(pages) |-> AsRgbWithoutAlpha(pages[i])],
                      <<>>, quality, 0))

(***************************************************************************)
(* Requests, responses, the handlers' outcomes.                            *)
(***************************************************************************)
Tokens == 1..MaxTokens

NoBytes == Bytes("", <<>>, <<>>, 0, 0)

NoReq ==
    [filename |-> <<>>, ctype |-> <<>>, output |-> <<>>, quality |-> 0,
     source |-> JunkSource, token |-> 0]

ConvertReq(filename, ctype, output, source) ==
    [NoReq EXCEPT !.filename = filename, !.ctype = ctype, !.output = output,
                  !.source = source]

CompressReq(filename, ctype, quality, source) ==
    [NoReq EXCEPT !.filename = filename, !.ctype = ctype, !.quality = quality,
                  !.source = source]

DownloadReq(token) == [NoReq EXCEPT !.token = token]

\* An HTTP response: the status, the message, and what a success carries (the
\* download link's token, as a set of at most one token, the name, the label; for
\* a download the content and its media type).
Response(status, msg, token, name, label, content, media) ==
    [status |-> status, msg |-> msg, token |-> token, name |-> name, label |-> label,
     content |-> content, media |-> media]

NoResp == Response(0, "", {}, <<>>, "", NoBytes, "")

Failure(status, msg) == Response(status, msg, {}, <<>>, "", NoBytes, "")

\* What the try block of a handler ends with: a response returned from inside
\* it, or the locals the code after it goes on with.  candidates, written and
\* err are kept for inspection: _compress_png's candidates, the entries the ZIP
\* held when the block ended, and the exception "except Exception" caught.
Returned(resp, written, err) ==
    [returned |-> TRUE, resp |-> resp, output_name |-> <<>>, out_bytes |-> NoBytes,
     media_type |-> "", label |-> "", candidates |-> <<>>, written |-> written,
     err |-> err]

Locals(output_name, out_bytes, media_type, label, candidates, written) ==
    [returned |-> FALSE, resp |-> NoResp, output_name |-> output_name,
     out_bytes |-> out_bytes, media_type |-> media_type, label |-> label,
     candidates |-> candidates, written |-> written, err |-> ""]

ConversionFailed(written, err) ==
    Returned(Failure(400, "Conversion failed. Please check the uploaded file."),
             written, err)

CompressionFailed(err) ==
    Returned(Failure(400, "Compression failed. Please check the uploaded file."), 0, err)

(***************************************************************************)
(* convert: the try block.                                                 *)
(***************************************************************************)
SourceName(filename, default) == IF filename = <<>> THEN default ELSE filename

\* IsPdf without the content type.
IsPdfBySuffix(suffix, content_type) == suffix = DOT_PDF

IsPdf(suffix, content_type) == suffix = DOT_PDF \/ content_type = APPLICATION_PDF

\* PageName with f"{index}" for f"{index:03d}".
PageNameUnpadded(source_name, index, ext) ==
    PathStem(source_name) \o <<"_","p","a","g","e","_">> \o Decimal(index) \o <<".">> \o ext

PageName(source_name, index, ext) ==
    PathStem(source_name) \o <<"_","p","a","g","e","_">> \o Format03d(index) \o <<".">> \o ext

\* ZipPages with the exception caught inside the loop: a page that fails to
\* encode is left out of the archive.
ZipPagesSkipping(source_name, pages, output) ==
    LET enc == [i \in 1..Len(pages) |-> EncodeImage(pages[i], output)]
        good == SelectSeq([i \in 1..Len(pages) |-> i], LAMBDA i : enc[i].ok)
    IN  Return([k \in 1..Len(good) |->
                  [name |-> PathStem(source_name) \o <<"_","p","a","g","e","_">>
                              \o Format03d(good[k]) \o <<".">> \o enc[good[k]].val.ext,
                   data |-> enc[good[k]].val.bytes]])

\* The ZIP loop: the pages are encoded and written in order; the first page
\* whose encoding raises ends the loop with the entries written so far.
ZipPages(source_name, pages, output) ==
    LET enc == [i \in 1..Len(pages) |-> EncodeImage(pages[i], output)]
        bad == {i \in 1..Len(pages) : ~enc[i].ok}
        stop == IF bad = {} THEN Len(pages) + 1
                ELSE CHOOSE i \in bad : \A j \in bad : i <= j
        entries == [i \in 1..(stop - 1) |->
                      [name |-> PageName(source_name, i, enc[i].val.ext),
                       data |-> enc[i].val.bytes]]
    IN  IF bad = {} THEN Return(entries) ELSE [Raise(enc[stop].err) EXCEPT !.val = entries]

ConvertTry(req) ==
    LET source_name == SourceName(req.filename, CONVERTED)
        suffix == Lower(PathSuffix(source_name))
        content_type == Lower(req.ctype)
        output == req.output
    IN  IF IsPdf(suffix, content_type)
        THEN IF output = PDF
             THEN Returned(Failure(400, "PDF to PDF is not supported."), 0, "")
             ELSE LET pages == RenderPdfPages(req.source, 1500)
                  IN  IF ~pages.ok THEN ConversionFailed(0, pages.err)
                      ELSE IF Len(pages.val) = 1
                      THEN LET e == EncodeImage(pages.val[1], output)
                           IN  IF ~e.ok THEN ConversionFailed(0, e.err)
                               ELSE Locals(PathStem(source_name) \o <<".">> \o e.val.ext,
                                           e.val.bytes, e.val.media, e.val.label, <<>>, 0)
                      ELSE LET z == ZipPages(source_name, pages.val, output)
                           IN  IF ~z.ok THEN ConversionFailed(Len(z.val), z.err)
                               ELSE Locals(PathStem(source_name) \o <<"_">> \o output
                                              \o <<"_","p","a","g","e","s",".","z","i","p">>,
                                           Bytes("ZIP", <<>>, z.val, 0, 0),
                                           "application/zip", "ZIP", <<>>, Len(z.val))
        ELSE LET img == ImageOpen(req.source)
             IN  IF ~img.ok THEN ConversionFailed(0, img.err)
                 ELSE LET e == IF output = PDF THEN EncodePdf(img.val)
                                               ELSE EncodeImage(img.val, output)
                      IN  IF ~e.ok THEN ConversionFailed(0, e.err)
                          ELSE Locals(PathStem(source_name) \o <<".">> \o e.val.ext,
                                      e.val.bytes, e.val.media, e.val.label, <<>>, 0)

(***************************************************************************)
(* _compress_png                                                           *)
(***************************************************************************)
Max(a, b) == IF a >= b THEN a ELSE b

Min(a, b) == IF a <= b THEN a ELSE b

\* int(): truncation towards zero
TruncDiv(a, b) == IF a >= 0 THEN a \div b ELSE -((-a) \div b)

\* int(32 + ((quality - 20) / 75) * 224), then max(32, min(256, .)).  The float
\* product is an integer only where 75 divides quality - 20, and is at least
\* 1/75 away from one elsewhere, so the truncation is that of the exact quotient.
BaseColors(quality) == Max(32, Min(256, 32 + TruncDiv((quality - 20) * 224, 75)))

RECURSIVE SortedDescending(_)
SortedDescending(S) ==
    IF S = {} THEN <<>>
    ELSE LET m == CHOOSE x \in S : \A y \in S : y <= x
         IN  <<m>> \o SortedDescending(S \ {m})

\* PaletteSizes as a list: the three sizes, equal ones kept.
PaletteSizesList(quality) ==
    LET base_colors == BaseColors(quality)
    IN  <<base_colors, Max(16, base_colors \div 2), Max(16, base_colors \div 4)>>

PaletteSizes(quality) ==
    LET base_colors == BaseColors(quality)
    IN  SortedDescending({base_colors, Max(16, base_colors \div 2),
                          Max(16, base_colors \div 4)})

Quantize(img, colors) ==
    LET work == IF img.mode \notin {"RGB", "RGBA"} THEN [img EXCEPT !.mode = "RGBA"] ELSE img
    IN  IF work.mode = "RGBA"
        THEN [work EXCEPT !.mode = "P", !.colors = colors, !.quantizer = "FASTOCTREE"]
        ELSE [work EXCEPT !.mode = "P", !.colors = colors, !.quantizer = "MEDIANCUT"]

PngCandidates(img, quality) ==
    LET palette_sizes == PaletteSizes(quality)
    IN  <<SavePngBytes(img, img.pngLen)>>
        \o [i \in 1..Len(palette_sizes) |->
              SavePngBytes(Quantize(img, palette_sizes[i]), img.quantLen[i])]

\* MinByLen returning the candidate tried last.
LastCandidate(candidates) == candidates[Len(candidates)]

\* min(candidates, key=len): the first candidate of the least length
MinByLen(candidates) ==
    candidates[CHOOSE i \in 1..Len(candidates) :
                  /\ \A j \in 1..Len(candidates) : candidates[i].len <= candidates[j].len
                  /\ \A j \in 1..(i - 1) : candidates[j].len > candidates[i].len]

CompressPng(img, quality) == MinByLen(PngCandidates(img, quality))

(***************************************************************************)
(* compress: the clamp of quality and the try block.                       *)
(***************************************************************************)
ClampQuality(quality) == Max(20, Min(95, quality))

\* scale = 0.9 + ((quality - 20) / 75) * 1.1, in 1/750
CompressScale(quality) == 675 + (quality - 20) * 11

\* Unsupported with "or" for "and".
UnsupportedEither(suffix, content_type) ==
    \/ suffix \notin SUPPORTED_COMPRESSION_SUFFIXES
    \/ content_type \notin SUPPORTED_COMPRESSION_CONTENT_TYPES

Unsupported(suffix, content_type) ==
    /\ suffix \notin SUPPORTED_COMPRESSION_SUFFIXES
    /\ content_type \notin SUPPORTED_COMPRESSION_CONTENT_TYPES

CompressedName(source_name, ext) ==
    PathStem(source_name) \o <<"_">> \o COMPRESSED \o <<".">> \o ext

CompressTry(req) ==
    LET quality == ClampQuality(req.quality)
        source_name == SourceName(req.filename, COMPRESSED)
        suffix == Lower(PathSuffix(source_name))
        content_type == Lower(req.ctype)
    IN  IF Unsupported(suffix, content_type)
        THEN Returned(Failure(400, "Unsupported file type for compression."), 0, "")
        ELSE IF IsPdf(suffix, content_type)
        THEN LET pages == RenderPdfPages(req.source, CompressScale(quality))
                 out == IF pages.ok THEN EncodePdfPages(pages.val, quality) ELSE pages
             IN  IF ~out.ok THEN CompressionFailed(out.err)
                 ELSE Locals(CompressedName(source_name, PDF), out.val,
                             "application/pdf", "PDF", <<>>, 0)
        ELSE LET img == ImageOpen(req.source)
             IN  IF ~img.ok THEN CompressionFailed(img.err)
                 ELSE IF suffix = DOT_PNG \/ content_type = IMAGE_PNG
                 THEN Locals(CompressedName(source_name, PNG),
                             CompressPng(img.val, quality), "image/png", "PNG",
                             PngCandidates(img.val, quality), 0)
                 ELSE Locals(CompressedName(source_name, JPG),
                             Bytes("JPEG", <<AsRgbWithoutAlpha(img.val)>>, <<>>, quality, 0),
                             "image/jpeg", "JPG", <<>>, 0)

(***************************************************************************)
(* uuid4().hex is a value no earlier call returned; every token the code   *)
(* draws is a key of DOWNLOAD_CACHE from the same step on.                 *)
(***************************************************************************)
Uuid4(issued) == Tokens \ issued

\* CachePut rebinding the table to the new entry alone.
CacheReplace(c, token, entry) == [t \in {token} |-> entry]

\* DOWNLOAD_CACHE[token] = (output_name, out_bytes, media_type)
CachePut(c, token, entry) ==
    [t \in DOMAIN c \cup {token} |-> IF t = token THEN entry ELSE c[t]]

CacheEntry(output_name, out_bytes, media_type) ==
    [filename |-> output_name, content |-> out_bytes, media_type |-> media_type]

(***************************************************************************)
(* download                                                                *)
(***************************************************************************)
\* DownloadResponse answering a miss with the 400 of the other handlers.
DownloadResponseBadRequest(c, token) ==
    IF token \notin DOMAIN c
    THEN Failure(400, "File not found.")
    ELSE Response(200, "", {}, c[token].filename, "", c[token].content,
                  c[token].media_type)

\* file_info = DOWNLOAD_CACHE.get(token); a stored entry is a 3-tuple, never falsy
DownloadResponse(c, token) ==
    IF token \notin DOMAIN c
    THEN Failure(404, "File not found.")
    ELSE Response(200, "", {}, c[token].filename, "", c[token].content,
                  c[token].media_type)

(***************************************************************************)
(* The handlers as steps.  convert and compress are coroutines: they       *)
(* yield once, at "await file.read()", and run from there to the response  *)
(* without yielding.  download runs on a worker thread and reads the       *)
(* table once.                                                             *)
(***************************************************************************)
Slots == {1, 2}

Idle == [pc |-> "idle", op |-> "", req |-> NoReq, locals |-> Returned(NoResp, 0, ""), resp |-> NoResp]

Init ==
    /\ cache = <<>>
    /\ slot = [r \in Slots |-> Idle]
    /\ ureq = [pc |-> "idle", category |-> <<>>, unit |-> <<>>, value |-> 0,
               status |-> 0, msg |-> "", rows |-> <<>>]

Receive(r, op, req) ==
    /\ slot[r].pc = "idle"
    /\ slot' = [slot EXCEPT ![r] = [Idle EXCEPT !.pc = "read", !.op = op, !.req = req]]
    /\ UNCHANGED <<cache, ureq>>

\* The code after the try block: the token, the table entry, the response.
Store(r, try, msg) ==
    \E token \in Uuid4(DOMAIN cache) :
        /\ cache' = CachePut(cache, token,
                             CacheEntry(try.output_name, try.out_bytes, try.media_type))
        /\ slot' = [slot EXCEPT ![r].pc = "done", ![r].locals = try,
                        ![r].resp = Response(200, msg, {token}, Escape(try.output_name),
                                             try.label, NoBytes, "")]

Run(r, op, try, msg) ==
    /\ slot[r].pc = "read"
    /\ slot[r].op = op
    /\ IF try.returned
       THEN /\ slot' = [slot EXCEPT ![r].pc = "done", ![r].locals = try, ![r].resp = try.resp]
            /\ cache' = cache
       ELSE Store(r, try, msg)
    /\ UNCHANGED ureq

ConvertReceive(r, req) == Receive(r, "convert", req)

ConvertRun(r) == Run(r, "convert", ConvertTry(slot[r].req), "Successfully converted.")

CompressReceive(r, req) == Receive(r, "compress", req)

\* The status line's byte counts (saved, or grown by) are not modelled.
CompressRun(r) == Run(r, "compress", CompressTry(slot[r].req), "Successfully compressed.")

Download(r, token) ==
    /\ slot[r].pc = "idle"
    /\ slot' = [slot EXCEPT ![r] = [Idle EXCEPT !.pc = "done", !.op = "download",
                                                !.req = DownloadReq(token),
                                                !.resp = DownloadResponse(cache, token)]]
    /\ UNCHANGED <<cache, ureq>>

\* The response is sent and the worker is free again.
Respond(r) ==
    /\ slot[r].pc = "done"
    /\ slot' = [slot EXCEPT ![r] = Idle]
    /\ UNCHANGED <<cache, ureq>>

(***************************************************************************)
(* The service: two workers, requests of every kind in any interleaving.   *)
(* A request is taken only while uuid4 has a token left for it.            *)
(***************************************************************************)
Name_DocPDF == <<"D","o","c",".","P","D","F">>

Name_ScanPng == <<"s","c","a","n",".","p","n","g">>

Name_NotesTxt == <<"n","o","t","e","s",".","t","x","t">>

RgbaImage == ImgSource("RGBA", 2, <<1, 2, 2>>)

ServiceConvertRequests ==
    { ConvertReq(Name_DocPDF, <<>>, PNG, PdfSource(<<"ok", "ok">>)),
      ConvertReq(Name_DocPDF, <<>>, JPG, PdfSource(<<"ok", "big">>)),
      ConvertReq(Name_ScanPng, IMAGE_PNG, PDF, RgbaImage),
      ConvertReq(Name_ScanPng, <<"A","p","p","l","i","c","a","t","i","o","n","/","P","D","F">>, PDF, RgbaImage),
      ConvertReq(Name_DocPDF, <<>>, PNG, JunkSource),
      ConvertReq(Name_ScanPng, IMAGE_PNG, JPG, PdfSource(<<"ok">>)),
      ConvertReq(Name_ScanPng, IMAGE_PNG, <<"g","i","f">>, RgbaImage) }

ServiceCompressRequests ==
    { CompressReq(Name_ScanPng, IMAGE_PNG, 20, RgbaImage),
      CompressReq(Name_NotesTxt, <<"t","e","x","t","/","p","l","a","i","n">>, 75, JunkSource),
      CompressReq(Name_DocPDF, <<>>, 75, PdfSource(<<"ok", "big">>)),
      CompressReq(Name_DocPDF, APPLICATION_PDF, 75, PdfSource(<<>>)),
      CompressReq(Name_ScanPng, IMAGE_PNG, 75, JunkSource) }

\* The tokens a client may ask for: those uuid4 hands out, and one it never does.
RequestTokens == 1..(MaxTokens + 1)

InFlight == {r \in Slots : slot[r].pc = "read"}

TokenLeft == Cardinality(DOMAIN cache) + Cardinality(InFlight) < MaxTokens

Next ==
    \/ \E r \in Slots, req \in ServiceConvertRequests : TokenLeft /\ ConvertReceive(r, req)
    \/ \E r \in Slots : ConvertRun(r)
    \/ \E r \in Slots, req \in ServiceCompressRequests : TokenLeft /\ CompressReceive(r, req)
    \/ \E r \in Slots : CompressRun(r)
    \/ \E r \in Slots, token \in RequestTokens : Download(r, token)
    \/ \E r \in Slots : Respond(r)

Spec == Init /\ [][Next]_vars

(***************************************************************************)
(* One worker of a freshly started service, with every upload of the       *)
(* bounded sets below: /convert.                                           *)
(***************************************************************************)
RECURSIVE SeqsUpTo(_, _)
SeqsUpTo(S, n) ==
    IF n = 0 THEN {<<>>}
    ELSE LET shorter == SeqsUpTo(S, n - 1)
         IN  shorter \cup {Append(q, x) : q \in shorter, x \in S}

PdfSources == {PdfSource(pages) : pages \in SeqsUpTo(PageKinds, MaxPages)}

\* None, an upper-case extension, an image, a hidden file, a name in a directory.
Filenames ==
    { <<>>, <<"D",".","P","D","F">>, <<"s",".","p","n","g">>, <<".","p","d","f">>, <<"d","/","a",".","p","d","f">> }

ContentTypes ==
    { <<>>, <<"a","p","p","l","i","c","a","t","i","o","n","/","p","d","f">>, <<"A","p","p","l","i","c","a","t","i","o","n","/","P","D","F">>, <<"i","m","a","g","e","/","p","n","g">> }

Outputs == { PNG, JPG, PDF, <<"g","i","f">>, <<"P","N","G">> }

ConvertRequests ==
    { ConvertReq(f, ct, o, src) :
        f \in Filenames, ct \in ContentTypes, o \in Outputs,
        src \in PdfSources \cup {RgbaImage, JunkSource} }

Fresh == DOMAIN cache = {}

NextConvert ==
    \/ \E req \in ConvertRequests : Fresh /\ ConvertReceive(1, req)
    \/ ConvertRun(1)
    \/ Respond(1)

SpecConvert == Init /\ [][NextConvert]_vars

(***************************************************************************)
(* The same for /compress: every pairing of the file names and content     *)
(* types below, and every quality and every outcome of the PNG encodings   *)
(* for a PNG upload.                                                       *)
(***************************************************************************)
CompressFilenames ==
    { <<>>, <<"D",".","P","D","F">>, <<"s",".","p","n","g">>, <<"n",".","t","x","t">>, <<"p",".","J","P","E","G">>, <<"h",".","h","e","i","c">> }

CompressContentTypes ==
    { <<>>, <<"a","p","p","l","i","c","a","t","i","o","n","/","p","d","f">>, <<"I","m","a","g","e","/","P","N","G">>, <<"i","m","a","g","e","/","j","p","e","g">>, <<"t","e","x","t","/","p","l","a","i","n">> }

Qualities == (20 - QMargin)..(95 + QMargin)

Sizes == 1..MaxSize

ImgSources ==
    { ImgSource(mode, base, <<q1, q2, q3>>) :
        mode \in {"RGBA", "L"}, base \in Sizes, q1 \in Sizes, q2 \in Sizes, q3 \in Sizes }

CompressRequests ==
    { CompressReq(f, ct, 75, src) :
        f \in CompressFilenames, ct \in CompressContentTypes,
        src \in {PdfSource(<<"ok">>), PdfSource(<<"ok", "big">>), PdfSource(<<>>),
                 RgbaImage, JunkSource} }
    \cup
    { CompressReq(f, IMAGE_PNG, q, src) :
        f \in {<<"s",".","p","n","g">>}, q \in Qualities, src \in ImgSources }

NextCompress ==
    \/ \E req \in CompressRequests : Fresh /\ CompressReceive(1, req)
    \/ CompressRun(1)
    \/ Respond(1)

SpecCompress == Init /\ [][NextCompress]_vars

(***************************************************************************)
(* /unit-convert.  A number is value * 2^e2 * 3^e3 * 5^e5 with an integer  *)
(* value: the factors of UNIT_DEFINITIONS are all of this form (1e-9 is    *)
(* 2^-9 * 5^-9, 60.0 is 2^2 * 3 * 5, 8.0 * 1024.0**4 is 2^43), so          *)
(* products and quotients are exact.  The rounding of the floats, and      *)
(* _format_number's rendering of a row's value, are not modelled: a row    *)
(* holds the number handed to _format_number.                              *)
(***************************************************************************)
Factor(e2, e3, e5) == [e2 |-> e2, e3 |-> e3, e5 |-> e5]

Number(value) == [value |-> value, e2 |-> 0, e3 |-> 0, e5 |-> 0]

Times(x, f) ==
    [x EXCEPT !.e2 = x.e2 + f.e2, !.e3 = x.e3 + f.e3, !.e5 = x.e5 + f.e5]

Over(x, f) ==
    [x EXCEPT !.e2 = x.e2 - f.e2, !.e3 = x.e3 - f.e3, !.e5 = x.e5 - f.e5]

UnitDef(name, symbol, factor) == [name |-> name, symbol |-> symbol, factor |-> factor]

POWERS_OF_TEN ==
    << UnitDef("atto", <<"a">>, Factor(-18, 0, -18)),
       UnitDef("femto", <<"f">>, Factor(-15, 0, -15)),
       UnitDef("pico", <<"p">>, Factor(-12, 0, -12)),
       UnitDef("nano", <<"n">>, Factor(-9, 0, -9)),
       UnitDef("micro", <<"u">>, Factor(-6, 0, -6)),
       UnitDef("milli", <<"m">>, Factor(-3, 0, -3)),
       UnitDef("base", <<"b","a","s","e">>, Factor(0, 0, 0)),
       UnitDef("kilo", <<"k">>, Factor(3, 0, 3)),
       UnitDef("mega", <<"M">>, Factor(6, 0, 6)),
       UnitDef("giga", <<"G">>, Factor(9, 0, 9)),
       UnitDef("tera", <<"T">>, Factor(12, 0, 12)),
       UnitDef("peta", <<"P">>, Factor(15, 0, 15)),
       UnitDef("exa", <<"E">>, Factor(18, 0, 18)) >>

LENGTH ==
    << UnitDef("nanometer", <<"n","m">>, Factor(-9, 0, -9)),
       UnitDef("micrometer", <<"u","m">>, Factor(-6, 0, -6)),
       UnitDef("millimeter", <<"m","m">>, Factor(-3, 0, -3)),
       UnitDef("meter", <<"m">>, Factor(0, 0, 0)),
       UnitDef("kilometer", <<"k","m">>, Factor(3, 0, 3)) >>

TIME ==
    << UnitDef("nanosecond", <<"n","s">>, Factor(-9, 0, -9)),
       UnitDef("microsecond", <<"u","s">>, Factor(-6, 0, -6)),
       UnitDef("millisecond", <<"m","s">>, Factor(-3, 0, -3)),
       UnitDef("second", <<"s">>, Factor(0, 0, 0)),
       UnitDef("minute", <<"m","i","n">>, Factor(2, 1, 1)),
       UnitDef("hour", <<"h">>, Factor(4, 2, 2)) >>

WEIGHT ==
    << UnitDef("nanogram", <<"n","g">>, Factor(-9, 0, -9)),
       UnitDef("microgram", <<"u","g">>, Factor(-6, 0, -6)),
       UnitDef("milligram", <<"m","g">>, Factor(-3, 0, -3)),
       UnitDef("gram", <<"g">>, Factor(0, 0, 0)),
       UnitDef("kilogram", <<"k","g">>, Factor(3, 0, 3)),
       UnitDef("ton", <<"t">>, Factor(6, 0, 6)) >>

BIT_BYTE ==
    << UnitDef("bit", <<"b">>, Factor(0, 0, 0)),
       UnitDef("byte", <<"B">>, Factor(3, 0, 0)),
       UnitDef("kibibit", <<"K","i","b">>, Factor(10, 0, 0)),
       UnitDef("kibibyte", <<"K","i","B">>, Factor(13, 0, 0)),
       UnitDef("mebibit", <<"M","i","b">>, Factor(20, 0, 0)),
       UnitDef("mebibyte", <<"M","i","B">>, Factor(23, 0, 0)),
       UnitDef("gibibit", <<"G","i","b">>, Factor(30, 0, 0)),
       UnitDef("gibibyte", <<"G","i","B">>, Factor(33, 0, 0)),
       UnitDef("tebibit", <<"T","i","b">>, Factor(40, 0, 0)),
       UnitDef("tebibyte", <<"T","i","B">>, Factor(43, 0, 0)) >>

CategoryNames ==
    << <<"p","o","w","e","r","s","_","o","f","_","t","e","n">>,
       <<"l","e","n","g","t","h">>,
       <<"t","i","m","e">>,
       <<"w","e","i","g","h","t">>,
       <<"b","i","t","_","b","y","t","e">> >>

CategoryUnits == <<POWERS_OF_TEN, LENGTH, TIME, WEIGHT, BIT_BYTE>>

\* UNIT_DEFINITIONS.get(category): the units of the category, or None (<<>>)
UNIT_DEFINITIONS(category) ==
    IF \E i \in 1..Len(CategoryNames) : CategoryNames[i] = category
    THEN CategoryUnits[CHOOSE i \in 1..Len(CategoryNames) : CategoryNames[i] = category]
    ELSE <<>>

\* unit_map = {symbol: (name, factor) for ...}; unit_map.get(unit): the last unit
\* of that symbol, or None (<<>>)
UnitMapGet(units, unit) ==
    LET hits == {i \in 1..Len(units) : units[i].symbol = unit}
    IN  IF hits = {} THEN <<>>
        ELSE <<units[CHOOSE i \in hits : \A j \in hits : j <= i]>>

\* ConvertedRows with the two factors exchanged.
ConvertedRowsInverted(units, input_factor, value) ==
    LET base_value == Over(Number(value), input_factor)
    IN  [i \in 1..Len(units) |->
           [name |-> units[i].name, symbol |-> Escape(units[i].symbol),
            value |-> Times(base_value, units[i].factor)]]

ConvertedRows(units, input_factor, value) ==
    LET base_value == Times(Number(value), input_factor)
    IN  [i \in 1..Len(units) |->
           [name |-> units[i].name, symbol |-> Escape(units[i].symbol),
            value |-> Over(base_value, units[i].factor)]]

UnitResponse(status, msg, rows) == [status |-> status, msg |-> msg, rows |-> rows]

UnitConvertBody(rawCategory, rawUnit, value) ==
    LET category == Strip(Lower(rawCategory))
        unit == Strip(rawUnit)
        units == UNIT_DEFINITIONS(category)
        selected == UnitMapGet(units, unit)
    IN  IF units = <<>>
        THEN UnitResponse(400, "Unsupported unit category.", <<>>)
        ELSE IF selected = <<>>
        THEN UnitResponse(400, "Unsupported input unit.", <<>>)
        ELSE UnitResponse(200, "", ConvertedRows(units, selected[1].factor, value))

UnitConvert(category, unit, value) ==
    /\ ureq.pc = "idle"
    /\ LET resp == UnitConvertBody(category, unit, value)
       IN  ureq' = [pc |-> "done", category |-> category, unit |-> unit, value |-> value,
                    status |-> resp.status, msg |-> resp.msg, rows |-> resp.rows]
    /\ UNCHANGED <<cache, slot>>

UnitRespond ==
    /\ ureq.pc = "done"
    /\ ureq' = [pc |-> "idle", category |-> <<>>, unit |-> <<>>, value |-> 0,
                status |-> 0, msg |-> "", rows |-> <<>>]
    /\ UNCHANGED <<cache, slot>>

\* Submitted categories: every defined one, with other case and with blanks
\* around it, an undefined one, the empty one.  Submitted units: symbols of the
\* categories (some shared between categories, some differing only in case),
\* with blanks around them, a unit's name, an undefined symbol.
RawCategories ==
    { <<"l","e","n","g","t","h">>, <<"t","i","m","e">>, <<"w","e","i","g","h","t">>, <<"b","i","t","_","b","y","t","e">>, <<"p","o","w","e","r","s","_","o","f","_","t","e","n">>,
      <<" ","T","i","m","e"," ">>, <<"L","E","N","G","T","H">>, <<"b","i","t"," ","b","y","t","e">>, <<"v","o","l","u","m","e">>, <<>> }

RawUnits ==
    { <<"m">>, <<"M">>, <<"k","m">>, <<" ","s"," ">>, <<"m","i","n">>, <<"h">>, <<"g">>, <<"b">>, <<"B">>, <<"K","i","B">>, <<"b","a","s","e">>,
      <<"m","e","t","e","r">>, <<"x">>, <<>> }

Values == (0 - MaxValue)..MaxValue

NextUnit ==
    \/ \E c \in RawCategories, u \in RawUnits, v \in Values : UnitConvert(c, u, v)
    \/ UnitRespond

SpecUnit == Init /\ [][NextUnit]_vars

(***************************************************************************)
(* The claims.                                                             *)
(***************************************************************************)
Done(r, op) == slot[r].pc = "done" /\ slot[r].op = op

Succeeded(r) == slot[r].resp.status = 200

\* The file name and the content type as the handlers read them.
NameOf(req, default) == IF req.filename = <<>> THEN default ELSE req.filename

ExtensionOf(req, default) == Lower(PathSuffix(NameOf(req, default)))

\* The entry a successful response's link leads to.
Stored(r) == cache[CHOOSE t \in slot[r].resp.token : TRUE]

ImageMime(output) == IF output = PNG THEN "image/png" ELSE "image/jpeg"

ImageFormat(output) == IF output = PNG THEN "PNG" ELSE "JPEG"

PdfUpload(req) ==
    /\ ExtensionOf(req, CONVERTED) = DOT_PDF \/ Lower(req.ctype) = APPLICATION_PDF
    /\ req.source.kind = "pdf"
    /\ Len(req.source.pages) >= 1

\* C1: a convert request on a PDF of N pages with target png or jpg that
\* succeeds stores, if N > 1, a ZIP (application/zip) of exactly N entries, the
\* i-th being page i encoded in the target format and named
\* <stem>_page_<i, zero-padded to 3 digits>.<ext>; if N = 1 it stores the one
\* encoded image, named <stem>.<ext>, with the image's MIME type, and no ZIP.
\* With target png it always succeeds.
C1_PdfPagesPackaged ==
    \A r \in Slots :
        LET req == slot[r].req
            n == Len(req.source.pages)
            stem == PathStem(NameOf(req, CONVERTED))
        IN  (Done(r, "convert") /\ PdfUpload(req) /\ req.output \in {PNG, JPG}) =>
              /\ req.output = PNG => Succeeded(r)
              /\ (Succeeded(r) /\ n > 1) =>
                    /\ Stored(r).media_type = "application/zip"
                    /\ Stored(r).content.fmt = "ZIP"
                    /\ Len(Stored(r).content.entries) = n
                    /\ \A i \in 1..n :
                          LET e == Stored(r).content.entries[i]
                          IN  /\ e.name = stem \o <<"_","p","a","g","e","_">>
                                            \o ZeroPad(Decimal(i), 3) \o <<".">> \o req.output
                              /\ e.data.fmt = ImageFormat(req.output)
                              /\ e.data.imgs[1].page = i
              /\ (Succeeded(r) /\ n = 1) =>
                    /\ Stored(r).filename = stem \o <<".">> \o req.output
                    /\ Stored(r).media_type = ImageMime(req.output)
                    /\ Stored(r).content.fmt = ImageFormat(req.output)
                    /\ Stored(r).content.entries = <<>>
                    /\ Stored(r).content.imgs[1].page = 1

C1_Witness ==
    \E r \in Slots :
        /\ Done(r, "convert") /\ Succeeded(r) /\ PdfUpload(slot[r].req)
        /\ Len(slot[r].req.source.pages) = 3
        /\ slot[r].req.output = PNG
        /\ Len(Stored(r).content.entries) = 3
        /\ Stored(r).content.entries[3].name
             = <<"D","_","p","a","g","e","_","0","0","3",".","p","n","g">>

RejectedPdfToPdf(r) ==
    /\ slot[r].resp.status = 400
    /\ slot[r].resp.msg = "PDF to PDF is not supported."
    /\ slot[r].resp.token = {}

\* Handled as a raster image: decoded by the image decoder and wrapped as a
\* one-page PDF, or failed in decoding.
HandledAsRaster(r) ==
    IF slot[r].req.source.kind = "img"
    THEN Succeeded(r) /\ Stored(r).media_type = "application/pdf"
                      /\ Stored(r).content.imgs[1].page = 0
    ELSE slot[r].resp.status = 400 /\ slot[r].locals.err = "cannot identify image file"

PdfToPdfSettled(isPdfSource) ==
    \A r \in Slots :
        (Done(r, "convert") /\ slot[r].req.output = PDF) =>
            IF isPdfSource[slot[r].req]
            THEN RejectedPdfToPdf(r) /\ cache = <<>>
            ELSE ~RejectedPdfToPdf(r) /\ HandledAsRaster(r)

\* C4 as stated: the extension is compared case-insensitively, the declared
\* content type as it was sent.
C4_AsStated ==
    PdfToPdfSettled([req \in {slot[r].req : r \in Slots} |->
        ExtensionOf(req, CONVERTED) = DOT_PDF \/ req.ctype = APPLICATION_PDF])

\* C4: a convert request with target pdf on a source whose extension is .pdf
\* or whose declared content type is application/pdf, both compared
\* case-insensitively, is rejected with a 400 whatever its bytes are, nothing
\* is rendered and no entry is stored; a source meeting neither is not rejected
\* on this ground and is handled as a raster image.
C4_PdfToPdfRejected ==
    PdfToPdfSettled([req \in {slot[r].req : r \in Slots} |->
        ExtensionOf(req, CONVERTED) = DOT_PDF \/ Lower(req.ctype) = APPLICATION_PDF])

C4_Witness ==
    \E r \in Slots :
        /\ Done(r, "convert") /\ RejectedPdfToPdf(r)
        /\ slot[r].req.filename = <<"s",".","p","n","g">>
        /\ slot[r].req.ctype = <<"A","p","p","l","i","c","a","t","i","o","n","/","P","D","F">>
        /\ slot[r].req.source.kind = "junk"

\* The decoding or rendering before the encoder went through.
ReachedEncoder(req) ==
    IF ExtensionOf(req, CONVERTED) = DOT_PDF \/ Lower(req.ctype) = APPLICATION_PDF
    THEN req.source.kind = "pdf" /\ Len(req.source.pages) >= 1
    ELSE req.source.kind = "img"

\* C5: a convert request whose target is none of png, jpg, pdf gets a 400 and
\* stores nothing, on a PDF of any page count and on a raster source, and once
\* the source is decoded the encoder raises the unsupported-format error; with
\* target png or jpg on any source, or pdf on a raster source, the encoder does
\* not raise it.
C5_UnsupportedTarget ==
    \A r \in Slots :
        LET req == slot[r].req
        IN  Done(r, "convert") =>
              IF req.output \notin {PNG, JPG, PDF}
              THEN /\ slot[r].resp.status = 400
                   /\ slot[r].resp.token = {}
                   /\ cache = <<>>
                   /\ ReachedEncoder(req) =>
                        slot[r].locals.err = "Unsupported output format."
              ELSE slot[r].locals.err # "Unsupported output format."

C5_Witness ==
    \E r \in Slots :
        /\ Done(r, "convert")
        /\ slot[r].req.output = <<"g","i","f">>
        /\ Len(slot[r].req.source.pages) = 2
        /\ ReachedEncoder(slot[r].req)
        /\ slot[r].locals.err = "Unsupported output format."
        /\ slot[r].resp.status = 400

\* A compress request that went through _compress_png.
PngCompressed(r) == Done(r, "compress") /\ Succeeded(r) /\ slot[r].resp.label = "PNG"

\* C6: for every image and every quality, the byte length of _compress_png's
\* result is at most that of the plain lossless PNG re-encode of the image,
\* which is the first of the candidates; the result is a candidate of the least
\* length.
C6_NeverWorseThanLossless ==
    \A r \in Slots :
        PngCompressed(r) =>
            LET cands == slot[r].locals.candidates
                result == Stored(r).content
            IN  /\ cands[1].imgs[1].colors = 0
                /\ cands[1].len = slot[r].req.source.pngLen
                /\ result.len <= slot[r].req.source.pngLen
                /\ \E i \in 1..Len(cands) : cands[i] = result
                /\ \A i \in 1..Len(cands) : result.len <= cands[i].len

\* Every quantization came out longer than the lossless encoding, which is returned.
C6_Witness ==
    \E r \in Slots :
        /\ PngCompressed(r)
        /\ Stored(r).content.imgs[1].colors = 0
        /\ Stored(r).content.len = slot[r].req.source.pngLen
        /\ \A i \in 2..Len(slot[r].locals.candidates) :
              slot[r].locals.candidates[i].len > slot[r].req.source.pngLen

AllowedSuffixes ==
    { <<".","h","e","i","c">>, <<".","h","e","i","f">>, <<".","p","n","g">>,
      <<".","j","p","g">>, <<".","j","p","e","g">>, <<".","p","d","f">> }

AllowedContentTypes ==
    { <<"i","m","a","g","e","/","h","e","i","c">>, <<"i","m","a","g","e","/","h","e","i","f">>,
      <<"i","m","a","g","e","/","p","n","g">>, <<"i","m","a","g","e","/","j","p","e","g">>,
      <<"a","p","p","l","i","c","a","t","i","o","n","/","p","d","f">> }

RejectedAsUnsupported(r) ==
    /\ slot[r].resp.status = 400
    /\ slot[r].resp.msg = "Unsupported file type for compression."
    /\ slot[r].resp.token = {}
    /\ slot[r].locals.err = ""

\* C7: a compress request whose lower-cased extension is not on the allow-list
\* and whose lower-cased content type is not either is rejected with the
\* unsupported-file-type 400, nothing is stored and nothing is decoded; every
\* other compress request goes on to decoding or rendering, so each request that
\* gets there has its extension or its content type on the list.
C7_CompressAllowList ==
    \A r \in Slots :
        Done(r, "compress") =>
            IF /\ ExtensionOf(slot[r].req, COMPRESSED) \notin AllowedSuffixes
               /\ Lower(slot[r].req.ctype) \notin AllowedContentTypes
            THEN RejectedAsUnsupported(r) /\ cache = <<>>
            ELSE /\ ~RejectedAsUnsupported(r)
                 /\ Succeeded(r) \/ slot[r].locals.err # ""

C7_Witness ==
    \E r \in Slots :
        /\ Done(r, "compress") /\ RejectedAsUnsupported(r)
        /\ slot[r].req.filename = <<"n",".","t","x","t">>
        /\ slot[r].req.ctype = <<"t","e","x","t","/","p","l","a","i","n">>
        /\ slot[r].req.source.kind = "img"

\* The palette budget of C10, from the clamped quality.
Budget(q) ==
    LET linear == (32 * 75 + (q - 20) * 224) \div 75
    IN  IF linear < 32 THEN 32 ELSE IF linear > 256 THEN 256 ELSE linear

Clamped(q) == IF q < 20 THEN 20 ELSE IF q > 95 THEN 95 ELSE q

AtLeast16(n) == IF n < 16 THEN 16 ELSE n

PaletteOf(cands) == [i \in 1..(Len(cands) - 1) |-> cands[i + 1].imgs[1].colors]

SmallestFirst(cands, result) ==
    \E i \in 1..Len(cands) :
        /\ cands[i] = result
        /\ \A j \in 1..Len(cands) : cands[i].len <= cands[j].len

\* C10 as stated: three quantization candidates, of the palette sizes colors,
\* max(16, colors/2), max(16, colors/4), and the baseline: 4 candidates.
C10_AsStated ==
    \A r \in Slots :
        PngCompressed(r) =>
            LET cands == slot[r].locals.candidates
                colors == Budget(Clamped(slot[r].req.quality))
            IN  /\ Len(cands) = 4
                /\ PaletteOf(cands) = <<colors, AtLeast16(colors \div 2),
                                        AtLeast16(colors \div 4)>>
                /\ cands[1].imgs[1].colors = 0
                /\ SmallestFirst(cands, Stored(r).content)

\* C10: for every quality submitted to compress, clamped to 20..95,
\* _compress_png computes colors = clamp(32 + (quality-20)/75 * 224, 32, 256)
\* truncated to an integer, builds one quantization candidate for each distinct
\* value among colors, max(16, colors div 2), max(16, colors div 4), in
\* descending order, after the lossless baseline, and returns the smallest of
\* these candidates: 4 of them where the three sizes differ, 3 at a clamped
\* quality of 20, where colors = 32 and the two smaller sizes are both 16.
C10_PaletteCandidates ==
    \A r \in Slots :
        PngCompressed(r) =>
            LET cands == slot[r].locals.candidates
                q == Clamped(slot[r].req.quality)
                colors == Budget(q)
                half == AtLeast16(colors \div 2)
                quarter == AtLeast16(colors \div 4)
            IN  /\ colors > half /\ half >= quarter
                /\ (half = quarter) <=> (q = 20)
                /\ PaletteOf(cands) = IF half = quarter THEN <<colors, half>>
                                      ELSE <<colors, half, quarter>>
                /\ Len(cands) = IF q = 20 THEN 3 ELSE 4
                /\ cands[1].imgs[1].colors = 0
                /\ \A i \in 2..Len(cands) : cands[i].imgs[1].mode = "P"
                /\ SmallestFirst(cands, Stored(r).content)

C10_Witness ==
    \E r \in Slots :
        /\ PngCompressed(r)
        /\ slot[r].req.quality < 20
        /\ PaletteOf(slot[r].locals.candidates) = <<32, 16>>
        /\ Stored(r).content.imgs[1].colors = 16

\* A step in which worker r runs its request from the read to the response.
Ran(r) == slot[r].pc = "read" /\ slot'[r].pc = "done"

\* A step in which worker r serves a download.
Downloaded(r) == slot[r].pc = "idle" /\ slot'[r].pc = "done" /\ slot'[r].op = "download"

Issued(r) == Ran(r) /\ slot'[r].resp.status = 200

\* C2: download(token) answers 404, which is not the 400 of a failed
\* conversion, for a token that is no key of the table, and with exactly the
\* stored filename, bytes and MIME type for a key; the keys are the tokens that
\* successful requests issued, each leading to what that request produced, and
\* a request that does not succeed issues none.
C2_DownloadReturnsStored ==
    [][\A r \in Slots :
          /\ Downloaded(r) =>
                LET t == slot'[r].req.token
                    resp == slot'[r].resp
                IN  IF t \in DOMAIN cache
                    THEN /\ resp.status = 200
                         /\ resp.name = cache[t].filename
                         /\ resp.content = cache[t].content
                         /\ resp.media = cache[t].media_type
                    ELSE resp.status = 404 /\ resp.status # 400 /\ resp.content = NoBytes
          /\ Ran(r) =>
                /\ DOMAIN cache' = DOMAIN cache \cup slot'[r].resp.token
                /\ slot'[r].resp.status # 200 => slot'[r].resp.token = {}
                /\ \A t \in slot'[r].resp.token :
                      /\ t \notin DOMAIN cache
                      /\ cache'[t].filename = slot'[r].locals.output_name
                      /\ cache'[t].content = slot'[r].locals.out_bytes
                      /\ cache'[t].media_type = slot'[r].locals.media_type
          /\ ~Ran(r) => slot'[r].resp.token \subseteq slot[r].resp.token
      ]_vars

\* One worker holds the link of a stored ZIP, the other has downloaded it.
C2_Witness ==
    \E r, d \in Slots :
        /\ Done(r, "convert") /\ Succeeded(r) /\ Stored(r).content.fmt = "ZIP"
        /\ Done(d, "download")
        /\ slot[d].req.token \in slot[r].resp.token
        /\ slot[d].resp.status = 200
        /\ slot[d].resp.content = slot[r].locals.out_bytes
        /\ slot[d].resp.name = slot[r].locals.output_name
        /\ slot[d].resp.media = "application/zip"

TreatedAsPdf(req, default) ==
    ExtensionOf(req, default) = DOT_PDF \/ Lower(req.ctype) = APPLICATION_PDF

Unrenderable(src) == src.kind # "pdf" \/ Len(src.pages) = 0

\* Some decode, render or encode step of the request fails.
SomeStepFails(op, req) ==
    IF op = "convert"
    THEN IF TreatedAsPdf(req, CONVERTED)
         THEN /\ req.output # PDF
              /\ \/ Unrenderable(req.source)
                 \/ req.output \notin {PNG, JPG}
                 \/ req.output = JPG /\ \E i \in 1..Len(req.source.pages) :
                                           req.source.pages[i] = "big"
         ELSE req.source.kind # "img" \/ req.output \notin {PNG, JPG, PDF}
    ELSE /\ \/ ExtensionOf(req, COMPRESSED) \in AllowedSuffixes
            \/ Lower(req.ctype) \in AllowedContentTypes
         /\ IF TreatedAsPdf(req, COMPRESSED)
            THEN \/ Unrenderable(req.source)
                 \/ \E i \in 1..Len(req.source.pages) : req.source.pages[i] = "big"
            ELSE req.source.kind # "img"

\* C3: when a decode, render or encode step of a convert or compress request
\* fails, also on a later page of a PDF after earlier pages were encoded, the
\* request ends with a 400, no token is issued and the table is as it was.
C3_AllOrNothing ==
    [][\A r \in Slots :
          (Ran(r) /\ SomeStepFails(slot[r].op, slot[r].req)) =>
              /\ slot'[r].resp.status = 400
              /\ slot'[r].resp.token = {}
              /\ slot'[r].resp.content = NoBytes
              /\ slot'[r].locals.err # ""
              /\ cache' = cache
      ]_vars

\* Page 2 failed to encode after page 1 was written to the ZIP; the table
\* holds an earlier request's entry.
C3_Witness ==
    \E r \in Slots :
        /\ Done(r, "convert")
        /\ slot[r].resp.status = 400
        /\ slot[r].locals.written = 1
        /\ slot[r].locals.err = "encoder error"
        /\ slot[r].resp.token = {}
        /\ cache # <<>>

\* C9: in any interleaving of convert, compress and download requests, a
\* successful convert or compress adds exactly one entry, under a token that
\* was no key before; no step overwrites, alters or removes an entry; a
\* download, a failing request and the hand-over of a response leave the table
\* as it is.
C9_TableOnlyGrows ==
    [][/\ \A t \in DOMAIN cache : t \in DOMAIN cache' /\ cache'[t] = cache[t]
       /\ \A r \in Slots :
             Issued(r) =>
                 /\ Cardinality(DOMAIN cache') = Cardinality(DOMAIN cache) + 1
                 /\ slot'[r].resp.token = DOMAIN cache' \ DOMAIN cache
       /\ (\A r \in Slots : ~Issued(r)) => cache' = cache
      ]_vars

\* Both workers hold links issued while the other's request was in flight, and
\* the table holds three entries.
C9_Witness ==
    /\ \A r \in Slots : slot[r].op \in {"convert", "compress"} /\ Done(r, slot[r].op)
                        /\ Succeeded(r)
    /\ slot[1].op # slot[2].op
    /\ slot[1].resp.token # slot[2].resp.token
    /\ Cardinality(DOMAIN cache) = 3
    /\ \A r \in Slots : Stored(r).content = slot[r].locals.out_bytes

DefinedCategories == {CategoryNames[i] : i \in 1..Len(CategoryNames)}

UnitsOf(category) ==
    CategoryUnits[CHOOSE i \in 1..Len(CategoryNames) : CategoryNames[i] = category]

\* C8: unit conversion of (category, unit symbol, value), the category
\* lower-cased and both stripped of blanks as the handler reads them: an
\* undefined category fails as an unknown category whatever the unit is; a
\* symbol that is none of the category's fails as an unknown unit; otherwise
\* there is one row per unit of the category, in the declared order, the input
\* unit's included, each of value * inputFactor / unitFactor.  The symbols of a
\* category are pairwise different.
C8_UnitConversion ==
    /\ \A c \in 1..Len(CategoryUnits) :
          \A i, j \in 1..Len(CategoryUnits[c]) :
              i # j => CategoryUnits[c][i].symbol # CategoryUnits[c][j].symbol
    /\ ureq.pc = "done" =>
          LET category == Strip(Lower(ureq.category))
              unit == Strip(ureq.unit)
          IN  IF category \notin DefinedCategories
              THEN ureq.status = 400 /\ ureq.msg = "Unsupported unit category."
                                     /\ ureq.rows = <<>>
              ELSE LET units == UnitsOf(category)
                       at == {i \in 1..Len(units) : units[i].symbol = unit}
                   IN  IF at = {}
                       THEN ureq.status = 400 /\ ureq.msg = "Unsupported input unit."
                                              /\ ureq.rows = <<>>
                       ELSE /\ ureq.status = 200
                            /\ Cardinality(at) = 1
                            /\ Len(ureq.rows) = Len(units)
                            /\ \A i \in 1..Len(units), k \in at :
                                  /\ ureq.rows[i].name = units[i].name
                                  /\ ureq.rows[i].symbol = units[i].symbol
                                  /\ ureq.rows[i].value.value = ureq.value
                                  /\ ureq.rows[i].value.e2
                                       = units[k].factor.e2 - units[i].factor.e2
                                  /\ ureq.rows[i].value.e3
                                       = units[k].factor.e3 - units[i].factor.e3
                                  /\ ureq.rows[i].value.e5
                                       = units[k].factor.e5 - units[i].factor.e5

\* 2 min: the row of the second reads 2 * 60 (2 * 2^2 * 3 * 5), the row of the
\* minute 2, the row of the hour 2 / 60.
C8_Witness ==
    /\ ureq.pc = "done" /\ ureq.status = 200
    /\ ureq.category = <<" ","T","i","m","e"," ">>
    /\ ureq.unit = <<"m","i","n">>
    /\ ureq.value = 2
    /\ Len(ureq.rows) = 6
    /\ ureq.rows[4].symbol = <<"s">>
    /\ ureq.rows[4].value = [value |-> 2, e2 |-> 2, e3 |-> 1, e5 |-> 1]
    /\ ureq.rows[5].value = [value |-> 2, e2 |-> 0, e3 |-> 0, e5 |-> 0]
    /\ ureq.rows[6].value = [value |-> 2, e2 |-> -2, e3 |-> -1, e5 |-> -1]

====
